---------------------------- MODULE Spec2Model ----------------------------
(***************************************************************************)
(* The convergence routines of the Solow-model notebook: interact_CD and  *)
(* interact_CES, with the transition functions they iterate                *)
(* (kt_plus1_func, ht_plus1_func, kt1, ht1).                               *)
(*                                                                         *)
(* Numbers.  The notebook computes in Python floats.  Here a float is an  *)
(* integer count of 1/Scale units (a fixed-point grid, results rounded    *)
(* down), finite up to FloatMax units in magnitude, or one of the special *)
(* values PInf, NInf, NaN, which follow the IEEE rules Python uses.  Err  *)
(* stands for an evaluation that raised: ZeroDivisionError (a division by *)
(* zero, 0.0 to a negative power) or OverflowError (a power out of        *)
(* range), both of Python's class ArithmeticError.  The slider parameters *)
(* (savings rates, shares, sigma, n, g, delta) are integers in            *)
(* hundredths, the step of the sliders.                                    *)
(***************************************************************************)
EXTENDS Integers, Sequences, FiniteSets, TLC

\* ----------------------------------------------------------------- bounds
\* Grid units per 1.0.
Scale == 1000
\* Largest finite magnitude, in grid units; beyond it a result is infinite.
FloatMax == 50000

\* ------------------------------------------------------ program constants
\* while i<10000
LoopBound == 10000
\* elif i==9999
LastIter == 9999
\* the tolerance 0.00001 is 1/TolDen
TolDen == 100000

\* ------------------------------------------------------------ float values
PInf == FloatMax + 1
NInf == 0 - (FloatMax + 1)
NaN == FloatMax + 2
Err == FloatMax + 3

IsFinite(x) == x >= 0 - FloatMax /\ x <= FloatMax
IsInf(x) == x = PInf \/ x = NInf

\* A computed magnitude brought back to the float range.
Rnd(x) == IF x > FloatMax THEN PInf ELSE IF x < 0 - FloatMax THEN NInf ELSE x

FNeg(a) == IF a = Err \/ a = NaN THEN a ELSE 0 - a

\* a + b
FAdd(a, b) ==
  IF a = Err \/ b = Err THEN Err
  ELSE IF a = NaN \/ b = NaN THEN NaN
  ELSE IF IsFinite(a) /\ IsFinite(b) THEN Rnd(a + b)
  ELSE IF IsFinite(a) THEN b
  ELSE IF IsFinite(b) THEN a
  ELSE IF a = b THEN a ELSE NaN

\* a - b
FSub(a, b) == FAdd(a, FNeg(b))

\* a * (num/den) for a parameter expression num/den, den >= 0; a zero
\* denominator is the float division by zero Python raises on.
FScale(a, num, den) ==
  IF a = Err \/ den = 0 THEN Err
  ELSE IF a = NaN THEN NaN
  ELSE IF IsFinite(a) THEN Rnd((a * num) \div den)
  ELSE IF num = 0 THEN NaN
  ELSE IF num > 0 THEN a ELSE 0 - a

\* a * b for two floats
FMul(a, b) ==
  IF a = Err \/ b = Err THEN Err
  ELSE IF a = NaN \/ b = NaN THEN NaN
  ELSE IF IsFinite(a) /\ IsFinite(b) THEN Rnd((a * b) \div Scale)
  ELSE IF a = 0 \/ b = 0 THEN NaN
  ELSE IF (a > 0) = (b > 0) THEN PInf ELSE NInf

RECURSIVE SqrtSearch(_, _, _)
SqrtSearch(v, lo, hi) ==
  IF lo >= hi THEN lo
  ELSE LET mid == (lo + hi + 1) \div 2
       IN IF mid * mid <= v THEN SqrtSearch(v, mid, hi)
          ELSE SqrtSearch(v, lo, mid - 1)

\* The square root of a finite x >= 0, on the grid.
FSqrt(x) == SqrtSearch(x * Scale, 0, 46340)

\* x ** e for an exponent e in hundredths.  The exponents the model's inputs
\* produce are 0, -1, 1/2 and 1/4, and any exponent under the base 1.0
\* (1.0 ** e is 1.0); a negative finite base under a fractional
\* exponent (a complex result in Python) is outside the model.  Unlike * and
\* +, ** raises when its finite operand gives a result out of range
\* (OverflowError): Err.
FPow(x, e) ==
  CASE x = Err -> Err
    [] x # Err /\ e = 0 -> Scale
    [] x # Err /\ e = -100 ->
         IF x = 0 THEN Err
         ELSE IF x = NaN THEN NaN
         ELSE IF IsInf(x) THEN 0
         ELSE IF IsFinite(Rnd((Scale * Scale) \div x)) THEN (Scale * Scale) \div x
         ELSE Err
    [] x # Err /\ e = 50 /\ (x >= 0 \/ x = NInf) ->
         IF x = NaN THEN NaN
         ELSE IF IsInf(x) THEN PInf
         ELSE FSqrt(x)
    [] x # Err /\ e = 25 /\ (x >= 0 \/ x = NInf) ->
         IF x = NaN THEN NaN
         ELSE IF IsInf(x) THEN PInf
         ELSE FSqrt(FSqrt(x))
    [] x = Scale /\ e \notin {0, -100, 50, 25} -> Scale

\* np.abs(x) < 0.00001
AbsBelowTol(x) ==
  /\ IsFinite(x)
  /\ (IF x < 0 THEN 0 - x ELSE x) < Scale
  /\ (IF x < 0 THEN 0 - x ELSE x) * TolDen < Scale

\* ------------------------------------------------------ parameter terms
\* n + g + delta + n*g, in ten-thousandths
GrowthTerm(n, g, delta) == (n + g + delta) * 100 + n * g
\* (1+n)*(1+g), in ten-thousandths
Divisor(n, g) == (100 + n) * (100 + g)

\* ------------------------------------------- Cobb-Douglas transition map
\* The transition with "+ tilkt" left out: the change of k alone.
kt_plus1_func_ChangeOnly(tilkt, tilht, alpha, n, g, sh, sk, delta, phi) ==
  FScale(FSub(FScale(FMul(FPow(tilkt, alpha), FPow(tilht, phi)), sk, 100),
              FScale(tilkt, GrowthTerm(n, g, delta), 10000)),
         10000, Divisor(n, g))

\* ktplus1 = 1/((1+n)*(1+g))*(sk*tilkt**alpha*tilht**phi-(n+g+delta+n*g)*tilkt) + tilkt
kt_plus1_func(tilkt, tilht, alpha, n, g, sh, sk, delta, phi) ==
  FAdd(FScale(FSub(FScale(FMul(FPow(tilkt, alpha), FPow(tilht, phi)), sk, 100),
                   FScale(tilkt, GrowthTerm(n, g, delta), 10000)),
              10000, Divisor(n, g)),
       tilkt)

\* The h transition with k depreciated in place of h, as in the notebook's
\* law of motion H_{t+1} = I_t^H + (1-delta)K_t.
ht_plus1_func_DepreciatesK(tilkt, tilht, alpha, n, g, sh, sk, delta, phi) ==
  FAdd(FScale(FSub(FScale(FMul(FPow(tilkt, alpha), FPow(tilht, phi)), sh, 100),
                   FScale(tilkt, GrowthTerm(n, g, delta), 10000)),
              10000, Divisor(n, g)),
       tilht)

\* htplus1 = 1/((1+n)*(1+g))*(sh*tilkt**alpha*tilht**phi-(n+g+delta+n*g)*tilht) + tilht
ht_plus1_func(tilkt, tilht, alpha, n, g, sh, sk, delta, phi) ==
  FAdd(FScale(FSub(FScale(FMul(FPow(tilkt, alpha), FPow(tilht, phi)), sh, 100),
                   FScale(tilht, GrowthTerm(n, g, delta), 10000)),
              10000, Divisor(n, g)),
       tilht)

\* ss_k: 1/((1+n)*(1+g))*(sk*tilkt**alpha*tilht**phi-(n+g+delta+n*g)*tilkt),
\* the expression sm.solve sets to 0
ss_k(tilkt, tilht, alpha, n, g, sh, sk, delta, phi) ==
  FScale(FSub(FScale(FMul(FPow(tilkt, alpha), FPow(tilht, phi)), sk, 100),
              FScale(tilkt, GrowthTerm(n, g, delta), 10000)),
         10000, Divisor(n, g))

\* ss_h: 1/((1+n)*(1+g))*(sh*tilkt**alpha*tilht**phi-(n+g+delta+n*g)*tilht)
ss_h(tilkt, tilht, alpha, n, g, sh, sk, delta, phi) ==
  FScale(FSub(FScale(FMul(FPow(tilkt, alpha), FPow(tilht, phi)), sh, 100),
              FScale(tilht, GrowthTerm(n, g, delta), 10000)),
         10000, Divisor(n, g))

\* ----------------------------------------------------- CES transition map
\* (sigma-1)/sigma, in hundredths; Err when sigma = 0
ExpInner(sigma) == IF sigma = 0 THEN Err ELSE ((sigma - 100) * 100) \div sigma
\* sigma/(sigma-1), in hundredths; Err when sigma = 1
ExpOuter(sigma) == IF sigma = 100 THEN Err ELSE (sigma * 100) \div (sigma - 100)

\* (alpha*tilkt**((sigma-1)/sigma)+phi*tilht**((sigma-1)/sigma)+(1-alpha-phi))**(sigma/(sigma-1))
CESOutput(tilkt, tilht, alpha, phi, sigma) ==
  IF ExpInner(sigma) = Err \/ ExpOuter(sigma) = Err THEN Err
  ELSE FPow(FAdd(FAdd(FScale(FPow(tilkt, ExpInner(sigma)), alpha, 100),
                      FScale(FPow(tilht, ExpInner(sigma)), phi, 100)),
                 ((100 - alpha - phi) * Scale) \div 100),
            ExpOuter(sigma))

\* return (1/((1+n)*(1+g)))*(sk*(...)**(sigma/(sigma-1))-(n+g+delta+n*g)*tilkt+tilkt)
kt1(tilkt, tilht, sk, alpha, phi, sigma, n, g, delta) ==
  FScale(FAdd(FSub(FScale(CESOutput(tilkt, tilht, alpha, phi, sigma), sk, 100),
                   FScale(tilkt, GrowthTerm(n, g, delta), 10000)),
              tilkt),
         10000, Divisor(n, g))

\* return (1/((1+n)*(1+g)))*(sh*(...)**(sigma/(sigma-1))-(n+g+delta+n*g)*tilht)+tilht
ht1(tilkt, tilht, sh, alpha, phi, sigma, n, g, delta) ==
  FAdd(FScale(FSub(FScale(CESOutput(tilkt, tilht, alpha, phi, sigma), sh, 100),
                   FScale(tilht, GrowthTerm(n, g, delta), 10000)),
              10000, Divisor(n, g)),
       tilht)

\* ---------------------------------------------------------- the messages
\* display(Latex('Convergence archieved!'))
ConvergenceMsg == "Convergence archieved!"
\* display(Latex('No convergence archieved'))
NoConvergenceMsg == "No convergence archieved"
\* The four warnings of the if/elif chain.
Warnings == {"shares and savings", "shares", "savings", "growth"}

\* ------------------------------------------------------------ the checks
\* The chain with the savings test strict: sk + sh > 1.
WarningCD_Strict(sk, sh, alpha, phi, n, g, delta) ==
  IF sk + sh > 100 /\ alpha + phi >= 100 THEN "shares and savings"
  ELSE IF alpha + phi >= 100 THEN "shares"
  ELSE IF sk + sh > 100 THEN "savings"
  ELSE IF GrowthTerm(n, g, delta) <= 0 THEN "growth"
  ELSE ""

\* The warning the if/elif chain of interact_CD displays, or "" when the
\* parameters pass (the else branch).
WarningCD(sk, sh, alpha, phi, n, g, delta) ==
  IF sk + sh >= 100 /\ alpha + phi >= 100 THEN "shares and savings"
  ELSE IF alpha + phi >= 100 THEN "shares"
  ELSE IF sk + sh >= 100 THEN "savings"
  ELSE IF GrowthTerm(n, g, delta) <= 0 THEN "growth"
  ELSE ""

\* The same chain in interact_CES: its last test is (n + g + delta) == 0.
WarningCES(sk, sh, alpha, phi, n, g, delta) ==
  IF sk + sh >= 100 /\ alpha + phi >= 100 THEN "shares and savings"
  ELSE IF alpha + phi >= 100 THEN "shares"
  ELSE IF sk + sh >= 100 THEN "savings"
  ELSE IF n + g + delta = 0 THEN "growth"
  ELSE ""

Warning(f, q) ==
  IF f = "CD" THEN WarningCD(q.sk, q.sh, q.alpha, q.phi, q.n, q.g, q.delta)
  ELSE WarningCES(q.sk, q.sh, q.alpha, q.phi, q.n, q.g, q.delta)

\* ----------------------------------------------------------- the loop body
\* x < 0.00001, the comparison without np.abs
BelowTol(x) == IsFinite(x) /\ (x < 0 \/ AbsBelowTol(x))

\* The test with np.abs forgotten.
ErrorMargin_NoAbs(kl, hl) ==
  /\ BelowTol(FSub(hl[Len(hl)], hl[Len(hl) - 1]))
  /\ BelowTol(FSub(kl[Len(kl)], kl[Len(kl) - 1]))

\* np.abs(x) >= 0.00001: false on NaN, as every float comparison is
AbsAtLeastTol(x) == x # NaN /\ (IsInf(x) \/ ~AbsBelowTol(x))

\* The test written as "neither change is at least the tolerance".
ErrorMargin_Negated(kl, hl) ==
  /\ ~AbsAtLeastTol(FSub(hl[Len(hl)], hl[Len(hl) - 1]))
  /\ ~AbsAtLeastTol(FSub(kl[Len(kl)], kl[Len(kl) - 1]))

\* The test with | in place of &.
ErrorMargin_Or(kl, hl) ==
  \/ AbsBelowTol(FSub(hl[Len(hl)], hl[Len(hl) - 1]))
  \/ AbsBelowTol(FSub(kl[Len(kl)], kl[Len(kl) - 1]))

\* (np.abs(h[-1]-h[-2])<0.00001) & (np.abs(k[-1]-k[-2])<0.00001)
ErrorMargin(kl, hl) ==
  /\ AbsBelowTol(FSub(hl[Len(hl)], hl[Len(hl) - 1]))
  /\ AbsBelowTol(FSub(kl[Len(kl)], kl[Len(kl) - 1]))

\* The limit test one pass late: elif i==10000.
MaxIterReached_AtBound(j) == j = LoopBound

\* elif i==9999
MaxIterReached(j) == j = LastIter

\* The plot given the final state alone.
PlotArgs_LastOnly(kl, hl) == <<<<kl[Len(kl)]>>, <<hl[Len(hl)]>>>>

\* create_cd_plot(k0cd_list,h0cd_list,...) / create_ces_plot(k0ces_list,h0ces_list):
\* the lists the plot is drawn from.
PlotArgs(kl, hl) == <<kl, hl>>

\* The k value appended from the lists' entry at Python index idx.
NextK(f, q, kl, hl, idx) ==
  IF f = "CD"
  THEN kt_plus1_func(kl[idx + 1], hl[idx + 1], q.alpha, q.n, q.g, q.sh, q.sk, q.delta, q.phi)
  ELSE kt1(kl[idx + 1], hl[idx + 1], q.sk, q.alpha, q.phi, q.sigma, q.n, q.g, q.delta)

\* The h value computed from the last entry of the k list, the k appended
\* just before, in place of the entry at idx.
NextH_FromNewK(f, q, kl, hl, idx) ==
  IF f = "CD"
  THEN ht_plus1_func(kl[Len(kl)], hl[idx + 1], q.alpha, q.n, q.g, q.sh, q.sk, q.delta, q.phi)
  ELSE ht1(kl[Len(kl)], hl[idx + 1], q.sh, q.alpha, q.phi, q.sigma, q.n, q.g, q.delta)

\* The h value appended from the lists' entry at Python index idx.
NextH(f, q, kl, hl, idx) ==
  IF f = "CD"
  THEN ht_plus1_func(kl[idx + 1], hl[idx + 1], q.alpha, q.n, q.g, q.sh, q.sk, q.delta, q.phi)
  ELSE ht1(kl[idx + 1], hl[idx + 1], q.sh, q.alpha, q.phi, q.sigma, q.n, q.g, q.delta)

\* ------------------------------------------------------------------ inputs
\* (k0, h0), in hundredths
InitialStates == {<<100, 100>>, <<400, 600>>}
\* (sk, sh)
Savings == {<<10, 10>>, <<10, 15>>, <<50, 50>>}
\* (alpha, phi)
Shares == {<<25, 25>>, <<0, 50>>, <<50, 50>>}
Sigmas == {0, 50, 100}
\* (n, g, delta)
Growth == {<<2, 2, 5>>, <<-5, 0, 5>>}
\* (n, g, delta) tried with the sliders' initial state and rates only
GrowthExtra ==
  {<<-10, 0, 5>>, <<-100, 50, 60>>, <<-27, 37, 0>>, <<-60, 0, 100>>, <<50, 50, 50>>}

\* (n, g, delta) under which k = h = 1 is the Cobb-Douglas steady state of
\* the rates sk = sh = 0.1: n + g + delta + n*g = 0.1
GrowthSteady == {<<0, 0, 10>>}

Params(st, sv, shr, sg, gr) ==
  [k0 |-> st[1], h0 |-> st[2], sk |-> sv[1], sh |-> sv[2],
   alpha |-> shr[1], phi |-> shr[2], sigma |-> sg,
   n |-> gr[1], g |-> gr[2], delta |-> gr[3]]

\* interact_CD takes no sigma: the field is 0 and never read.
SigmasOf(f) == IF f = "CD" THEN {0} ELSE Sigmas

Inputs(f) ==
  {Params(st, sv, shr, sg, gr) :
     st \in InitialStates, sv \in Savings, shr \in Shares,
     sg \in SigmasOf(f), gr \in Growth}
  \cup
  {Params(<<400, 600>>, <<10, 15>>, <<25, 25>>, sg, gr) :
     sg \in SigmasOf(f), gr \in GrowthExtra}
  \cup
  {Params(<<100, 100>>, <<10, 10>>, <<25, 25>>, sg, gr) :
     sg \in SigmasOf(f), gr \in GrowthSteady}

\* A slider value in hundredths as a float.
ToFloat(c) == (c * Scale) \div 100

\* --------------------------------------------------------- the two appends
\* The appends with the second one made to the k list as well.
Appends_BothToK(f, q, kl, hl, idx) ==
  LET kn == NextK(f, q, kl, hl, idx)
      kl2 == Append(kl, kn)
      hn == NextH(f, q, kl2, hl, idx)
  IN IF kn = Err THEN [k |-> kl, h |-> hl, err |-> TRUE, evals |-> 1]
     ELSE IF hn = Err THEN [k |-> kl2, h |-> hl, err |-> TRUE, evals |-> 2]
     ELSE [k |-> Append(kl2, hn), h |-> hl, err |-> FALSE, evals |-> 2]

\* The two appends of the loop body, or of the else branch's head, from
\* Python index idx: k first, then h read from the lists as they then are.
\* An evaluation that raises leaves before its append: err is TRUE and
\* evals counts the evaluations begun.
Appends(f, q, kl, hl, idx) ==
  LET kn == NextK(f, q, kl, hl, idx)
      kl2 == Append(kl, kn)
      hn == NextH(f, q, kl2, hl, idx)
  IN IF kn = Err THEN [k |-> kl, h |-> hl, err |-> TRUE, evals |-> 1]
     ELSE IF hn = Err THEN [k |-> kl2, h |-> hl, err |-> TRUE, evals |-> 2]
     ELSE [k |-> kl2, h |-> Append(hl, hn), err |-> FALSE, evals |-> 2]

\* ---------------------------------------------------------------- late runs
\* The lists <<k, h>> after one more pass of the loop body, or <<>> when the
\* call leaves the loop in that pass (it converges, reaches the limit or
\* raises) or has left it before.
OnePass(f, q, s) ==
  IF s = <<>> THEN <<>>
  ELSE IF ErrorMargin(s[1], s[2]) \/ MaxIterReached(Len(s[1]) - 1) THEN <<>>
  ELSE LET a == Appends(f, q, s[1], s[2], Len(s[1]) - 1)
       IN IF a.err THEN <<>> ELSE <<a.k, a.h>>

RECURSIVE Passes(_, _, _, _)
\* The lists after m passes of the loop body.
Passes(f, q, s, m) ==
  IF s = <<>> \/ m = 0 THEN s
  ELSE IF m = 1 THEN OnePass(f, q, s)
  ELSE Passes(f, q, Passes(f, q, s, m \div 2), m - (m \div 2))

\* The loop counter at which a call still iterating is also taken up: states
\* near the iteration limit are then a few steps away.
LateAt == LastIter - 4

\* The lists of the call f(q) when its loop counter is LateAt, or <<>> when
\* the call has left the loop by then.
LateLists(f, q) ==
  IF Warning(f, q) # "" THEN <<>>
  ELSE LET a == Appends(f, q, <<ToFloat(q.k0)>>, <<ToFloat(q.h0)>>, 0)
       IN IF a.err THEN <<>> ELSE Passes(f, q, <<a.k, a.h>>, LateAt - 1)

\* ------------------------------------------------------------------- state
VARIABLES
  fn,         \* "CD": interact_CD is running; "CES": interact_CES
  p,          \* the arguments of the call
  pc,         \* "start", "while", "return", "done", "raised"
  k0_list,    \* k0cd_list / k0ces_list
  h0_list,    \* h0cd_list / h0ces_list
  i,          \* the loop counter
  displayed,  \* what display(Latex(...)) has shown, in order
  result,     \* the local: "unassigned" or "None"
  plotted,    \* the lists create_cd_plot / create_ces_plot was given
  calls,      \* transition functions evaluated so far
  raised,     \* the exception that ended the call, or ""
  other,      \* a second call running at the same time: its locals, or NoCall
  frame,      \* a data frame of the data notebook: column name -> column
  applied     \* the transition functions applied to one state: name -> value

\* What the steps of the first call leave alone.
rest == <<other, frame, applied>>

vars == <<fn, p, pc, k0_list, h0_list, i, displayed, result, plotted, calls, raised,
          other, frame, applied>>

\* No function applied, to no arguments.
NoneApplied == <<>>

\* No data frame: no columns.
NoFrame == <<>>

\* No second call.
NoCall == [pc |-> "none"]

\* The call is entered.
AtStart ==
  /\ pc = "start"
  /\ k0_list = <<>>
  /\ h0_list = <<>>
  /\ i = 0
  /\ calls = 0

\* The call is at the loop test with i = LateAt, where the run from AtStart
\* arrives after LateAt - 1 passes.
AtLate ==
  LET s == LateLists(fn, p)
  IN /\ s # <<>>
     /\ pc = "while"
     /\ k0_list = s[1]
     /\ h0_list = s[2]
     /\ i = LateAt
     /\ calls = 2 * LateAt

\* A call of interact_CD or interact_CES is entered.
Init ==
  /\ fn \in {"CD", "CES"}
  /\ p \in Inputs(fn)
  /\ displayed = <<>>
  /\ result = "unassigned"
  /\ plotted = <<>>
  /\ raised = ""
  /\ AtStart
  /\ other = NoCall
  /\ frame = NoFrame
  /\ applied = NoneApplied

\* As Init, and the calls still iterating are also taken up at i = LateAt.
InitLate ==
  /\ fn \in {"CD", "CES"}
  /\ p \in Inputs(fn)
  /\ displayed = <<>>
  /\ result = "unassigned"
  /\ plotted = <<>>
  /\ raised = ""
  /\ AtStart \/ AtLate
  /\ other = NoCall
  /\ frame = NoFrame
  /\ applied = NoneApplied

\* One of the four warning branches: the warning is displayed, display's
\* None becomes the result.
Reject ==
  /\ pc = "start"
  /\ Warning(fn, p) # ""
  /\ displayed' = Append(displayed, Warning(fn, p))
  /\ result' = "None"
  /\ pc' = "return"
  /\ UNCHANGED <<fn, p, k0_list, h0_list, i, plotted, calls, raised>>
  /\ UNCHANGED rest

\* The appends from Python index idx as a step of the call.
AppendNext(kl, hl, idx) ==
  LET a == Appends(fn, p, kl, hl, idx)
  IN /\ k0_list' = a.k
     /\ h0_list' = a.h
     /\ calls' = calls + a.evals
     /\ raised' = IF a.err THEN "ArithmeticError" ELSE raised
     /\ pc' = IF a.err THEN "raised" ELSE "while"
     /\ i' = IF a.err THEN i ELSE idx + 1

\* The else branch up to the loop: the lists start with k0 and h0, k_1 and
\* h_1 are appended, i = 1.
Initialize ==
  /\ pc = "start"
  /\ Warning(fn, p) = ""
  /\ AppendNext(<<ToFloat(p.k0)>>, <<ToFloat(p.h0)>>, 0)
  /\ UNCHANGED <<fn, p, displayed, result, plotted>>
  /\ UNCHANGED rest

\* One test of the while condition and, when it holds, one pass of the body.
WhileStep ==
  /\ pc = "while"
  /\ IF i < LoopBound
     THEN IF ErrorMargin(k0_list, h0_list)
          THEN /\ displayed' = Append(displayed, ConvergenceMsg)
               /\ plotted' = PlotArgs(k0_list, h0_list)
               /\ result' = "None"
               /\ pc' = "return"
               /\ UNCHANGED <<k0_list, h0_list, i, calls, raised>>
          ELSE IF MaxIterReached(i)
          THEN /\ displayed' = Append(displayed, NoConvergenceMsg)
               /\ result' = "None"
               /\ pc' = "return"
               /\ UNCHANGED <<k0_list, h0_list, i, calls, raised, plotted>>
          ELSE /\ AppendNext(k0_list, h0_list, i)
               /\ UNCHANGED <<displayed, result, plotted>>
     ELSE /\ pc' = "return"
          /\ UNCHANGED <<k0_list, h0_list, i, calls, raised, displayed, result, plotted>>
  /\ UNCHANGED <<fn, p>>
  /\ UNCHANGED rest

\* return result
Return ==
  /\ pc = "return"
  /\ IF result = "unassigned"
     THEN /\ raised' = "UnboundLocalError"
          /\ pc' = "raised"
     ELSE /\ raised' = raised
          /\ pc' = "done"
  /\ UNCHANGED <<fn, p, k0_list, h0_list, i, displayed, result, plotted, calls>>
  /\ UNCHANGED rest

Next == Reject \/ Initialize \/ WhileStep \/ Return

Spec == Init /\ [][Next]_vars

\* The same calls, with the late states of the same runs as further starting
\* points: what holds of Spec's runs near the limit is found in few steps.
SpecLate == InitLate /\ [][Next]_vars

\* ---------------------------------------------------------- a second call
\* np.abs(x) < tol for a tolerance tol = 1/den
AbsBelowTolWith(den, x) ==
  /\ IsFinite(x)
  /\ (IF x < 0 THEN 0 - x ELSE x) < Scale
  /\ (IF x < 0 THEN 0 - x ELSE x) * den < Scale

\* The test with > in place of <.
ErrorMarginWith_Reversed(den, kl, hl) ==
  /\ IsFinite(FSub(hl[Len(hl)], hl[Len(hl) - 1]))
  /\ IsFinite(FSub(kl[Len(kl)], kl[Len(kl) - 1]))
  /\ ~AbsBelowTolWith(den, FSub(hl[Len(hl)], hl[Len(hl) - 1]))
  /\ ~AbsBelowTolWith(den, FSub(kl[Len(kl)], kl[Len(kl) - 1]))

\* The test of the loop with the literal 0.00001 read as 1/den:
\* (np.abs(h[-1]-h[-2])<tol) & (np.abs(k[-1]-k[-2])<tol)
ErrorMarginWith(den, kl, hl) ==
  /\ AbsBelowTolWith(den, FSub(hl[Len(hl)], hl[Len(hl) - 1]))
  /\ AbsBelowTolWith(den, FSub(kl[Len(kl)], kl[Len(kl) - 1]))

\* The lists as names of the module, shared by all calls.
ListsAreGlobal == FALSE

\* k0cd_list = [k0], h0cd_list = [h0] inside the def: the names are local
\* to each call.
ListsAreLocal == TRUE

\* The locals of a call of f(q) just entered, its tolerance 1/den.
Entered(f, q, den) ==
  [fn |-> f, p |-> q, tol |-> den, pc |-> "start", k0_list |-> <<>>,
   h0_list |-> <<>>, i |-> 0, displayed |-> <<>>, result |-> "unassigned",
   plotted |-> <<>>, calls |-> 0, raised |-> ""]

\* The two appends from Python index idx in the call with locals r.
AppendIn(r, kl, hl, idx) ==
  LET a == Appends(r.fn, r.p, kl, hl, idx)
  IN [r EXCEPT !.k0_list = a.k, !.h0_list = a.h, !.calls = r.calls + a.evals,
               !.raised = IF a.err THEN "ArithmeticError" ELSE r.raised,
               !.pc = IF a.err THEN "raised" ELSE "while",
               !.i = IF a.err THEN r.i ELSE idx + 1]

\* One step of the call with locals r: the if/elif chain and the head of
\* the else branch, one test of the while condition with one pass of the
\* body, or the return.
RunStep(r) ==
  IF r.pc = "start"
  THEN IF Warning(r.fn, r.p) # ""
       THEN [r EXCEPT !.displayed = Append(r.displayed, Warning(r.fn, r.p)),
                      !.result = "None", !.pc = "return"]
       ELSE AppendIn(r, <<ToFloat(r.p.k0)>>, <<ToFloat(r.p.h0)>>, 0)
  ELSE IF r.pc = "while"
  THEN IF r.i < LoopBound
       THEN IF ErrorMarginWith(r.tol, r.k0_list, r.h0_list)
            THEN [r EXCEPT !.displayed = Append(r.displayed, ConvergenceMsg),
                           !.plotted = PlotArgs(r.k0_list, r.h0_list),
                           !.result = "None", !.pc = "return"]
            ELSE IF MaxIterReached(r.i)
            THEN [r EXCEPT !.displayed = Append(r.displayed, NoConvergenceMsg),
                           !.result = "None", !.pc = "return"]
            ELSE AppendIn(r, r.k0_list, r.h0_list, r.i)
       ELSE [r EXCEPT !.pc = "return"]
  ELSE IF r.pc = "return"
  THEN IF r.result = "unassigned"
       THEN [r EXCEPT !.raised = "UnboundLocalError", !.pc = "raised"]
       ELSE [r EXCEPT !.pc = "done"]
  ELSE r

\* A step of the second call.  Were the lists names of the module, the call
\* would read and rebind the lists of the first call.
OtherStep ==
  /\ other.pc \in {"start", "while", "return"}
  /\ LET view == IF ListsAreLocal THEN other
                 ELSE [other EXCEPT !.k0_list = k0_list, !.h0_list = h0_list]
     IN /\ other' = RunStep(view)
        /\ k0_list' = IF ListsAreLocal THEN k0_list ELSE RunStep(view).k0_list
        /\ h0_list' = IF ListsAreLocal THEN h0_list ELSE RunStep(view).h0_list
  /\ UNCHANGED <<fn, p, pc, i, displayed, result, plotted, calls, raised, frame,
                 applied>>

\* The calls that run in pairs: short runs of both functions, one that
\* starts at its steady state, one rejected, one that raises.
PairInputs ==
  {<<"CD", Params(<<100, 100>>, <<10, 10>>, <<25, 25>>, 0, <<2, 2, 5>>)>>,
   <<"CD", Params(<<100, 100>>, <<10, 10>>, <<25, 25>>, 0, <<0, 0, 10>>)>>,
   <<"CD", Params(<<400, 600>>, <<10, 15>>, <<25, 25>>, 0, <<50, 50, 50>>)>>,
   <<"CD", Params(<<100, 100>>, <<50, 50>>, <<25, 25>>, 0, <<2, 2, 5>>)>>,
   <<"CES", Params(<<100, 100>>, <<10, 10>>, <<25, 25>>, 50, <<2, 2, 5>>)>>,
   <<"CES", Params(<<100, 100>>, <<10, 10>>, <<25, 25>>, 0, <<2, 2, 5>>)>>}

\* Tolerances 1/den looser than the 0.00001 of the code.
LooserTolDens == {20, 100}

\* Two calls are entered: any two of PairInputs, or the same call twice, the
\* second time with a looser tolerance.
InitTwo ==
  /\ \E a \in PairInputs : fn = a[1] /\ p = a[2]
  /\ displayed = <<>>
  /\ result = "unassigned"
  /\ plotted = <<>>
  /\ raised = ""
  /\ AtStart
  /\ \/ \E b \in PairInputs : other = Entered(b[1], b[2], TolDen)
     \/ \E den \in LooserTolDens : other = Entered(fn, p, den)
  /\ frame = NoFrame
  /\ applied = NoneApplied

NextTwo == Reject \/ Initialize \/ WhileStep \/ Return \/ OtherStep

\* Two calls whose steps interleave in any order.
SpecTwo == InitTwo /\ [][NextTwo]_vars

\* The longest run of PairInputs, in steps, is below SoloBound.
SoloBound == 128

RECURSIVE RunSteps(_, _)
\* The locals after m steps of the call with locals r, run alone.
RunSteps(r, m) ==
  IF r.pc \in {"done", "raised"} \/ m = 0 THEN r
  ELSE IF m = 1 THEN RunStep(r)
  ELSE RunSteps(RunSteps(r, m \div 2), m - (m \div 2))

\* The call f(q) run alone to its end.
Solo(f, q, den) == RunSteps(Entered(f, q, den), SoloBound)

\* ------------------------------------------------------- the data notebook
\* The calculations of the data notebook on one data frame.  A column is a
\* sequence with one entry per observation, <<v>> for a number and <<>> for
\* NaN, or a number where the code assigns one value to the whole column;
\* computed values are in 1/Scale units, the levels are whole numbers.

\* Most observations in a frame.
MaxObs == 4

\* The levels the series are made of.
Levels == {1, 2, 4, 8}

\* The 'Absolute level' columns: the series of 2 to MaxObs positive levels.
Series == UNION {[1..m -> Levels] : m \in 2..MaxObs}

RECURSIVE SumOf(_)
SumOf(x) == IF x = <<>> THEN 0 ELSE x[1] + SumOf(Tail(x))

\* Series.diff(): NaN first, then each entry less the one before.
Diff(col) ==
  [j \in 1..Len(col) |->
     IF j = 1 \/ col[j] = <<>> \/ col[j - 1] = <<>> THEN <<>>
     ELSE <<col[j][1] - col[j - 1][1]>>]

\* Series.mean()
Mean(x) == (SumOf(x) * Scale) \div Len(x)

\* Series.pct_change(): NaN first, then x_t/x_(t-1) - 1.
PctChange(x) ==
  [j \in 1..Len(x) |->
     IF j = 1 THEN <<>> ELSE <<(x[j] * Scale) \div x[j - 1] - Scale>>]

RECURSIVE PowCapped(_, _, _)
\* r to the power m (m a whole number), or a value above cap once it is.
PowCapped(r, m, cap) ==
  IF m = 0 THEN Scale
  ELSE LET t == PowCapped(r, m - 1, cap)
       IN IF t > cap THEN t ELSE (t * r) \div Scale

RECURSIVE RootSearch(_, _, _, _)
RootSearch(v, m, lo, hi) ==
  IF lo >= hi THEN lo
  ELSE LET mid == (lo + hi + 1) \div 2
       IN IF PowCapped(mid, m, v) <= v THEN RootSearch(v, m, mid, hi)
          ELSE RootSearch(v, m, lo, mid - 1)

\* v ** (1/m) for v > 0
NthRoot(v, m) == RootSearch(v, m, 0, IF v > Scale THEN v ELSE Scale)

\* The levels as a column of numbers in 1/Scale units.
AsColumn(x) == [j \in 1..Len(x) |-> <<x[j] * Scale>>]

\* A frame with its 'Absolute level' column: what the cells before the
\* calculations leave in each of dataframes.
\* Neither interact_CD nor interact_CES is running.
NoRun ==
  /\ fn = "none" /\ p = <<>> /\ pc = "none"
  /\ k0_list = <<>> /\ h0_list = <<>> /\ i = 0 /\ calls = 0
  /\ displayed = <<>> /\ result = "unassigned" /\ plotted = <<>> /\ raised = ""
  /\ other = NoCall

InitData ==
  /\ NoRun
  /\ applied = NoneApplied
  /\ \E x \in Series : frame = ("Absolute level" :> x)

\* The frame gets the column c, after the column prev and before any other.
Assign(prev, c, v) ==
  /\ prev \in DOMAIN frame
  /\ c \notin DOMAIN frame
  /\ frame' = frame @@ (c :> v)
  /\ UNCHANGED <<fn, p, pc, k0_list, h0_list, i, displayed, result, plotted,
                 calls, raised, other, applied>>

\* i['Absolute change'] = i['Absolute level'].diff()
AbsoluteChange ==
  Assign("Absolute level", "Absolute change",
         Diff(AsColumn(frame["Absolute level"])))

\* The notebook's formula for the average absolute change, (x_n - x_0)/n,
\* over the observations x_0..x_n.
AverageAbsoluteChangeFormula(x) == ((x[Len(x)] - x[1]) * Scale) \div (Len(x) - 1)

\* The notebook's formula for the average percentage change,
\* [(x_n/x_0)^(1/n) - 1]*100, over the observations x_0..x_n.
AveragePercentageChangeFormula(x) ==
  (NthRoot((x[Len(x)] * Scale) \div x[1], Len(x) - 1) - Scale) * 100

\* i['Absolute level'].mean()
AverageAbsoluteChangeOf(x) == Mean(x)

\* i['Average absolute change'] = i['Absolute level'].mean()
AverageAbsoluteChange ==
  Assign("Absolute change", "Average absolute change",
         AverageAbsoluteChangeOf(frame["Absolute level"]))

\* i['Percentage change'] = i['Absolute level'].pct_change()*100
PercentageChange ==
  Assign("Average absolute change", "Percentage change",
         [j \in 1..Len(frame["Absolute level"]) |->
            IF PctChange(frame["Absolute level"])[j] = <<>> THEN <<>>
            ELSE <<PctChange(frame["Absolute level"])[j][1] * 100>>])

\* ((x.iloc[-1]/x[0])**(1/len(x))-1)*100
AveragePercentageChangeOf(x) ==
  (NthRoot((x[Len(x)] * Scale) \div x[1], Len(x)) - Scale) * 100

\* i['Average percentage change'] = ((...iloc[-1]/...[0])**(1/len(...))-1)*100
AveragePercentageChange ==
  Assign("Percentage change", "Average percentage change",
         AveragePercentageChangeOf(frame["Absolute level"]))

\* i['Change in percentage points'] = i['Percentage change'].diff()
ChangeInPercentagePoints ==
  Assign("Average percentage change", "Change in percentage points",
         Diff(frame["Percentage change"]))

\* i['Simple index'][j] = i['Absolute level'].iloc[j]/i['Absolute level'].iloc[0]*100
\* for every j (the column is created full of NaN first)
SimpleIndex ==
  Assign("Change in percentage points", "Simple index",
         [j \in 1..Len(frame["Absolute level"]) |->
            <<((frame["Absolute level"][j] * Scale)
                 \div frame["Absolute level"][1]) * 100>>])

NextData ==
  \/ AbsoluteChange \/ AverageAbsoluteChange \/ PercentageChange
  \/ AveragePercentageChange \/ ChangeInPercentagePoints \/ SimpleIndex

\* The body of "for i in dataframes" on one frame.
SpecData == InitData /\ [][NextData]_vars

\* ------------------------------------------- the CES functions near sigma = 1
\* The four transition functions applied, each once and in any order, to the
\* state k = h = 1.0 under one set of parameters with sigma close to 1.  At
\* this state the CES term is 1.0 ** (sigma/(sigma-1)) = 1.0 whatever sigma
\* is, as k**alpha * h**phi is, so the grid computes both exactly.

\* The values of sigma, in hundredths, on both sides of 1.
SigmasNearOne == {95, 99, 101, 105}

\* The shares, the savings rates and the growth parameters of the
\* applications.
LimitShares == {<<25, 25>>, <<33, 33>>}
LimitSavings == {<<10, 15>>, <<20, 20>>}
LimitGrowth == {<<2, 2, 5>>, <<0, 0, 5>>, <<1, 3, 10>>, <<5, 0, 0>>}

LimitInputs ==
  {Params(<<100, 100>>, sv, shr, sg, gr) :
     sv \in LimitSavings, shr \in LimitShares, sg \in SigmasNearOne,
     gr \in LimitGrowth}

InitLimit ==
  /\ NoRun
  /\ frame = NoFrame
  /\ \E q \in LimitInputs : applied = ("args" :> q)

\* The value v of the function f is taken, once.
Apply(f, v) ==
  /\ "args" \in DOMAIN applied
  /\ f \notin DOMAIN applied
  /\ applied' = applied @@ (f :> v)
  /\ UNCHANGED <<fn, p, pc, k0_list, h0_list, i, displayed, result, plotted,
                 calls, raised, other, frame>>

ApplyKt1 ==
  /\ "args" \in DOMAIN applied
  /\ LET q == applied["args"]
     IN Apply("kt1", kt1(ToFloat(q.k0), ToFloat(q.h0), q.sk, q.alpha, q.phi,
                         q.sigma, q.n, q.g, q.delta))

ApplyHt1 ==
  /\ "args" \in DOMAIN applied
  /\ LET q == applied["args"]
     IN Apply("ht1", ht1(ToFloat(q.k0), ToFloat(q.h0), q.sh, q.alpha, q.phi,
                         q.sigma, q.n, q.g, q.delta))

ApplyKtPlus1 ==
  /\ "args" \in DOMAIN applied
  /\ LET q == applied["args"]
     IN Apply("kt_plus1_func",
              kt_plus1_func(ToFloat(q.k0), ToFloat(q.h0), q.alpha, q.n, q.g,
                            q.sh, q.sk, q.delta, q.phi))

ApplyHtPlus1 ==
  /\ "args" \in DOMAIN applied
  /\ LET q == applied["args"]
     IN Apply("ht_plus1_func",
              ht_plus1_func(ToFloat(q.k0), ToFloat(q.h0), q.alpha, q.n, q.g,
                            q.sh, q.sk, q.delta, q.phi))

NextLimit == ApplyKt1 \/ ApplyHt1 \/ ApplyKtPlus1 \/ ApplyHtPlus1

SpecLimit == InitLimit /\ [][NextLimit]_vars

\* ------------------------------------------------- the standard calibration
\* The run of interact_CD under the notebook's standard calibration, on a
\* grid fine enough for the tolerance 0.00001 and for distances of 0.0001:
\* floats are whole numbers of 1/FineScale, rounded towards zero.  Every
\* value of this run is positive and below 4, so that no operation leaves
\* the finite floats or raises.

\* Units of the fine grid in 1.0.
FineScale == 10000000

\* The base of the digits b is taken in: 64 or 2, with (Chunk(d) + 1) * d
\* in the range of the whole numbers.
Chunk(d) == IF d <= 2147483647 \div 128 THEN 64 ELSE 2

RECURSIVE MulDivRem(_, _, _)
\* <<q, r>> with a * b = q * d + r and 0 <= r < d, for a, b >= 0 and
\* 0 < d < 2^30, digit of b by digit, so that no intermediate value passes
\* Chunk(d) * d or the quotient.
MulDivRem(a, b, d) ==
  IF b = 0 THEN <<0, 0>>
  ELSE LET c == Chunk(d)
           high == MulDivRem(a, b \div c, d)
           q2 == c * high[1] + ((c * high[2]) \div d)
           r2 == (c * high[2]) % d
           low == (b % c) * (a % d)
       IN <<q2 + (b % c) * (a \div d) + ((r2 + low) \div d), (r2 + low) % d>>

\* a * b / d for b >= 0 and d > 0
MulDiv(a, b, d) ==
  IF a < 0 THEN 0 - MulDivRem(0 - a, b, d)[1] ELSE MulDivRem(a, b, d)[1]

\* a * b for two floats of the fine grid
FineMul(a, b) == MulDiv(a, b, FineScale)

RECURSIVE CubeRootSearch(_, _, _)
CubeRootSearch(v, lo, hi) ==
  IF lo >= hi THEN lo
  ELSE LET mid == (lo + hi + 1) \div 2
       IN IF FineMul(FineMul(mid, mid), mid) <= v
          THEN CubeRootSearch(v, mid, hi)
          ELSE CubeRootSearch(v, lo, mid - 1)

\* x ** (m/d) for 0 <= x <= 8.0 and the exponents of the calibration: 1/3
FinePow(x, e) ==
  CASE e = <<1, 3>> -> CubeRootSearch(x, 0, 2 * FineScale)

\* A slider value in hundredths as a float of the fine grid.
ToFine(c) == (c * FineScale) \div 100

\* alpha = phi = 1/3, delta = 0.05, g = n = 0.02, s_K = 0.1, s_H = 0.15, from
\* k0 = h0 = 1; the shares are fractions, the rest hundredths.
StandardCalibration ==
  [k0 |-> 100, h0 |-> 100, sk |-> 10, sh |-> 15,
   alpha |-> <<1, 3>>, phi |-> <<1, 3>>, sigma |-> 0,
   n |-> 2, g |-> 2, delta |-> 5]

\* ktplus1 on the fine grid
FineKtPlus1(tilkt, tilht, q) ==
  MulDiv(MulDiv(FineMul(FinePow(tilkt, q.alpha), FinePow(tilht, q.phi)), q.sk, 100)
           - MulDiv(tilkt, GrowthTerm(q.n, q.g, q.delta), 10000),
         10000, Divisor(q.n, q.g))
    + tilkt

\* htplus1 on the fine grid
FineHtPlus1(tilkt, tilht, q) ==
  MulDiv(MulDiv(FineMul(FinePow(tilkt, q.alpha), FinePow(tilht, q.phi)), q.sh, 100)
           - MulDiv(tilht, GrowthTerm(q.n, q.g, q.delta), 10000),
         10000, Divisor(q.n, q.g))
    + tilht

\* |x| < tolerance, for a whole tolerance denominator
FineAbsBelow(x, den) == (IF x < 0 THEN 0 - x ELSE x) <= (FineScale - 1) \div den

\* The convergence test with the tolerance 0.001.
FineErrorMargin_Loose(kl, hl) ==
  /\ FineAbsBelow(hl[Len(hl)] - hl[Len(hl) - 1], 1000)
  /\ FineAbsBelow(kl[Len(kl)] - kl[Len(kl) - 1], 1000)

\* (np.abs(h[-1]-h[-2])<0.00001) & (np.abs(k[-1]-k[-2])<0.00001)
FineErrorMargin(kl, hl) ==
  /\ FineAbsBelow(hl[Len(hl)] - hl[Len(hl) - 1], TolDen)
  /\ FineAbsBelow(kl[Len(kl)] - kl[Len(kl) - 1], TolDen)

\* ktilstar, the k of the solution of ss_k = 0 and ss_h = 0, which for
\* alpha = phi = 1/3 is sk^2 * sh / (n+g+delta+n*g)^3.
ktilstar(q) ==
  MulDiv(q.sk * q.sk * q.sh * 1000000, FineScale,
         GrowthTerm(q.n, q.g, q.delta) * GrowthTerm(q.n, q.g, q.delta)
           * GrowthTerm(q.n, q.g, q.delta))

\* htilstar: sk * sh^2 / (n+g+delta+n*g)^3, which is ktilstar * sh / sk
htilstar(q) == MulDiv(ktilstar(q), q.sh, q.sk)

\* interact_CD is entered with the standard calibration.
InitFine ==
  /\ fn = "CD"
  /\ p = StandardCalibration
  /\ displayed = <<>>
  /\ result = "unassigned"
  /\ plotted = <<>>
  /\ raised = ""
  /\ AtStart
  /\ other = NoCall
  /\ frame = NoFrame
  /\ applied = NoneApplied

\* The two appends from Python index idx: k first, then h.
FineAppendNext(kl, hl, idx) ==
  /\ k0_list' = Append(kl, FineKtPlus1(kl[idx + 1], hl[idx + 1], p))
  /\ h0_list' = Append(hl, FineHtPlus1(kl[idx + 1], hl[idx + 1], p))
  /\ calls' = calls + 2
  /\ i' = idx + 1
  /\ pc' = "while"
  /\ UNCHANGED raised

\* The else branch up to the loop (the calibration passes the four checks).
FineInitialize ==
  /\ pc = "start"
  /\ WarningCD(p.sk, p.sh, 33, 33, p.n, p.g, p.delta) = ""
  /\ FineAppendNext(<<ToFine(p.k0)>>, <<ToFine(p.h0)>>, 0)
  /\ UNCHANGED <<fn, p, displayed, result, plotted>>
  /\ UNCHANGED rest

\* One test of the while condition and, when it holds, one pass of the body.
FineWhileStep ==
  /\ pc = "while"
  /\ IF i < LoopBound
     THEN IF FineErrorMargin(k0_list, h0_list)
          THEN /\ displayed' = Append(displayed, ConvergenceMsg)
               /\ plotted' = PlotArgs(k0_list, h0_list)
               /\ result' = "None"
               /\ pc' = "return"
               /\ UNCHANGED <<k0_list, h0_list, i, calls, raised>>
          ELSE IF MaxIterReached(i)
          THEN /\ displayed' = Append(displayed, NoConvergenceMsg)
               /\ result' = "None"
               /\ pc' = "return"
               /\ UNCHANGED <<k0_list, h0_list, i, calls, raised, plotted>>
          ELSE /\ FineAppendNext(k0_list, h0_list, i)
               /\ UNCHANGED <<displayed, result, plotted>>
     ELSE /\ pc' = "return"
          /\ UNCHANGED <<k0_list, h0_list, i, calls, raised, displayed, result, plotted>>
  /\ UNCHANGED <<fn, p>>
  /\ UNCHANGED rest

NextFine == FineInitialize \/ FineWhileStep \/ Return

SpecFine == InitFine /\ [][NextFine]_vars

\* ================================================================ claims
Seen(msg) == \E j \in 1..Len(displayed) : displayed[j] = msg

\* The call has ended: it returned or an exception left it.
Stopped == pc \in {"done", "raised"}

\* Both coordinates of the states at (one-based) positions j and j+1 differ
\* by less than the tolerance, read from the lists.
PairWithin(j) ==
  /\ j >= 1 /\ j + 1 <= Len(k0_list) /\ j + 1 <= Len(h0_list)
  /\ AbsBelowTol(FSub(k0_list[j + 1], k0_list[j]))
  /\ AbsBelowTol(FSub(h0_list[j + 1], h0_list[j]))

\* Exactly one coordinate of the pair at j, j+1 is within the tolerance.
OneWithin(j) ==
  /\ j >= 1 /\ j + 1 <= Len(k0_list) /\ j + 1 <= Len(h0_list)
  /\ AbsBelowTol(FSub(k0_list[j + 1], k0_list[j]))
       # AbsBelowTol(FSub(h0_list[j + 1], h0_list[j]))

\* The parameter invariants the notebook states for the model: positive
\* savings rates and shares, sums below 1, n + g + delta + n*g > 0.
ValidParameters ==
  /\ p.sk > 0 /\ p.sh > 0 /\ p.sk + p.sh < 100
  /\ p.alpha > 0 /\ p.phi > 0 /\ p.alpha + p.phi < 100
  /\ GrowthTerm(p.n, p.g, p.delta) > 0

\* C1 (as claimed): a call whose parameters pass the checks (here: they pass
\* the code's checks and satisfy every stated invariant) stops with a
\* trajectory of at least 2 and at most LoopBound + 1 states.
C1_TrajectoryBounds ==
  (Stopped /\ Warning(fn, p) = "" /\ ValidParameters)
    => /\ Len(k0_list) >= 2 /\ Len(k0_list) <= LoopBound + 1
       /\ Len(h0_list) >= 2 /\ Len(h0_list) <= LoopBound + 1

\* C2: when convergence is reported the last two states satisfy the
\* tolerance test, no earlier consecutive pair does, and nothing was appended
\* after the test was satisfied: the lists are the ones handed to the plot,
\* and at every moment the pair before the last one fails the test.
C2_StopsAtFirstPairWithin ==
  /\ Seen(ConvergenceMsg)
       => /\ PairWithin(Len(k0_list) - 1)
          /\ \A j \in 1..(Len(k0_list) - 2) : ~PairWithin(j)
          /\ plotted = <<k0_list, h0_list>>
  /\ Len(k0_list) >= 3 => ~PairWithin(Len(k0_list) - 2)

\* C2's case: a run that converged after at least two applications.
C2_Witness ==
  pc = "done" /\ Seen(ConvergenceMsg) /\ Len(k0_list) >= 3

\* C3: convergence is reported only when the last two states differ by less
\* than the tolerance in k and in h at once; with one coordinate alone
\* within the tolerance the message is never displayed.
C3_BothCoordinates ==
  Seen(ConvergenceMsg)
    => /\ Len(k0_list) >= 2 /\ Len(h0_list) >= 2
       /\ AbsBelowTol(FSub(k0_list[Len(k0_list)], k0_list[Len(k0_list) - 1]))
       /\ AbsBelowTol(FSub(h0_list[Len(h0_list)], h0_list[Len(h0_list) - 1]))

\* C3's case: a converged run that went on from a pair with one coordinate
\* alone within the tolerance.
C3_Witness ==
  /\ pc = "done" /\ Seen(ConvergenceMsg)
  /\ \E j \in 1..(Len(k0_list) - 2) : OneWithin(j)

\* C4 (as claimed): non-convergence is reported after LoopBound = 10000
\* applications of the transition map, never fewer.
C4_AfterLoopBoundApplications ==
  Seen(NoConvergenceMsg) => Len(k0_list) - 1 = LoopBound

\* C4 (amended): non-convergence is reported exactly when the loop counter
\* is LastIter = 9999, after 9999 applications of the map (a trajectory of
\* 10000 states) of which no consecutive pair satisfied the test; and a call
\* that returns without having converged has reported it.
C4_AfterLastIterApplications ==
  /\ Seen(NoConvergenceMsg)
       => /\ i = LastIter
          /\ Len(k0_list) - 1 = LastIter /\ Len(h0_list) - 1 = LastIter
          /\ calls = 2 * LastIter
          /\ ~PairWithin(Len(k0_list) - 1)
  /\ (pc \in {"return", "done"} /\ Warning(fn, p) = "" /\ ~Seen(ConvergenceMsg))
       => Seen(NoConvergenceMsg)
  /\ (pc = "done" /\ Seen(NoConvergenceMsg))
       => \A j \in 1..(Len(k0_list) - 1) : ~PairWithin(j)

\* C4's case: interact_CD has returned after reporting non-convergence.
C4_Witness ==
  pc = "done" /\ fn = "CD" /\ Seen(NoConvergenceMsg) /\ ValidParameters

C6_SavingsRejected ==
  p.sk + p.sh >= 100
    => /\ k0_list = <<>> /\ h0_list = <<>> /\ calls = 0 /\ plotted = <<>>
       /\ raised = ""
       /\ pc \in {"start", "return", "done"}
       /\ pc # "start" => (Len(displayed) = 1 /\ displayed[1] \in Warnings)

\* C6's case: a call with sk + sh >= 1 and alpha + phi < 1 has returned.
C6_Witness ==
  pc = "done" /\ p.sk + p.sh >= 100 /\ p.alpha + p.phi < 100

\* C7 (as claimed): with n + g + delta + n*g <= 0 both functions display a
\* warning and evaluate no transition function.
C7_GrowthRejected ==
  GrowthTerm(p.n, p.g, p.delta) <= 0
    => /\ calls = 0 /\ k0_list = <<>>
       /\ pc # "start" => (Len(displayed) = 1 /\ displayed[1] \in Warnings)

\* C8 (as claimed): with a savings rate or a share not above 0 both
\* functions display a warning and evaluate no transition function.
C8_LowerBoundsRejected ==
  (p.sk <= 0 \/ p.sh <= 0 \/ p.alpha <= 0 \/ p.phi <= 0)
    => /\ calls = 0 /\ k0_list = <<>>
       /\ pc # "start" => (Len(displayed) = 1 /\ displayed[1] \in Warnings)

\* A value of the lists is infinite or NaN.
NonFiniteLast ==
  /\ Len(k0_list) >= 1 /\ Len(h0_list) >= 1
  /\ ~IsFinite(k0_list[Len(k0_list)]) \/ ~IsFinite(h0_list[Len(h0_list)])

NonFiniteSomewhere ==
  \/ \E j \in 1..Len(k0_list) : ~IsFinite(k0_list[j])
  \/ \E j \in 1..Len(h0_list) : ~IsFinite(h0_list[j])

Kt1AsDocumented(tilkt, tilht, sk, alpha, phi, sigma, n, g, delta) ==
  FAdd(FScale(FSub(FScale(CESOutput(tilkt, tilht, alpha, phi, sigma), sk, 100),
                   FScale(tilkt, GrowthTerm(n, g, delta), 10000)),
              10000, Divisor(n, g)),
       tilkt)

\* C10 (as claimed): the k that kt1 gives is k_t + [sk*Y - (n+g+delta+n*g)*k_t]
\* / [(1+n)(1+g)]; with equal coordinates and equal savings rates it is the h
\* that ht1 gives.
C10_Kt1FormOfHt1 ==
  (fn = "CES" /\ Len(k0_list) >= 2 /\ Len(h0_list) >= 2)
    => /\ k0_list[2] = Kt1AsDocumented(k0_list[1], h0_list[1], p.sk, p.alpha,
                                       p.phi, p.sigma, p.n, p.g, p.delta)
       /\ (p.k0 = p.h0 /\ p.sk = p.sh) => k0_list[2] = h0_list[2]

\* The Solow equations of the notebook: the next k is
\* k + (sK*k^alpha*h^phi - (n+g+delta+ng)*k) / ((1+n)(1+g)).
SolowK(tilkt, tilht, q) ==
  FAdd(tilkt,
       FScale(FSub(FScale(FMul(FPow(tilkt, q.alpha), FPow(tilht, q.phi)), q.sk, 100),
                   FScale(tilkt, GrowthTerm(q.n, q.g, q.delta), 10000)),
              10000, Divisor(q.n, q.g)))

\* The next h: h + (sH*k^alpha*h^phi - (n+g+delta+ng)*h) / ((1+n)(1+g)).
SolowH(tilkt, tilht, q) ==
  FAdd(tilht,
       FScale(FSub(FScale(FMul(FPow(tilkt, q.alpha), FPow(tilht, q.phi)), q.sh, 100),
                   FScale(tilht, GrowthTerm(q.n, q.g, q.delta), 10000)),
              10000, Divisor(q.n, q.g)))

AtSteadyState ==
  LET k == ToFloat(p.k0)
      h == ToFloat(p.h0)
  IN /\ ss_k(k, h, p.alpha, p.n, p.g, p.sh, p.sk, p.delta, p.phi) = 0
     /\ ss_h(k, h, p.alpha, p.n, p.g, p.sh, p.sk, p.delta, p.phi) = 0
     /\ FScale(FMul(FPow(k, p.alpha), FPow(h, p.phi)), p.sk, 100)
          = FScale(k, GrowthTerm(p.n, p.g, p.delta), 10000)
     /\ FScale(FMul(FPow(k, p.alpha), FPow(h, p.phi)), p.sh, 100)
          = FScale(h, GrowthTerm(p.n, p.g, p.delta), 10000)

\* C12: a Cobb-Douglas run started at a state where the steady-state
\* conditions hold maps the state to itself: its lists are <<k0, k0>> and
\* <<h0, h0>>, nothing more is appended, and it reports convergence at the
\* first test.
C12_FixedPoint ==
  (fn = "CD" /\ Warning(fn, p) = "" /\ AtSteadyState /\ pc # "start")
    => /\ k0_list = <<ToFloat(p.k0), ToFloat(p.k0)>>
       /\ h0_list = <<ToFloat(p.h0), ToFloat(p.h0)>>
       /\ i = 1 /\ raised = ""
       /\ pc \in {"return", "done"} => displayed = <<ConvergenceMsg>>

\* C12's case: interact_CD, started at its steady state, has returned.
C12_Witness ==
  fn = "CD" /\ Warning(fn, p) = "" /\ AtSteadyState /\ pc = "done"

\* A float that is not below 0 (NaN, which compares with nothing, is not
\* counted as below 0).
NonNegative(x) == x = PInf \/ x = NaN \/ (IsFinite(x) /\ x >= 0)

\* C14 (as claimed): with parameters that satisfy the stated conditions and
\* 0 <= delta <= 1, every value a call appends to its lists is non-negative
\* (each value is the last of its list when it is appended).
C14_NonNegativeStates ==
  (Warning(fn, p) = "" /\ ValidParameters /\ p.delta >= 0 /\ p.delta <= 100)
    => /\ Len(k0_list) >= 1 => NonNegative(k0_list[Len(k0_list)])
       /\ Len(h0_list) >= 1 => NonNegative(h0_list[Len(h0_list)])

\* The lists as one step leaves them: unchanged, or one value longer with
\* the values they had.
GrowsByOne(old, new) ==
  \/ new = old
  \/ Len(new) = Len(old) + 1 /\ new = Append(old, new[Len(new)])

\* What C15 says of one step of a call.
AppendOnlyStep ==
  /\ (pc # "start")
       => /\ GrowsByOne(k0_list, k0_list')
          /\ GrowsByOne(h0_list, h0_list')
          /\ Len(k0_list') - Len(k0_list) = Len(h0_list') - Len(h0_list)
          /\ i' - i = Len(k0_list') - Len(k0_list)
  /\ (pc = "start")
       => \/ k0_list' = <<>> /\ h0_list' = <<>>
          \/ Len(k0_list') = Len(h0_list') /\ Len(k0_list') \in {1, 2}
  /\ (pc \in {"return", "done", "raised"})
       => (k0_list' = k0_list /\ h0_list' = h0_list)

\* What C15 says of every state of a call.
AppendOnlyState ==
  /\ Len(k0_list) = Len(h0_list)
  /\ (Len(k0_list) >= 1)
       => (k0_list[1] = ToFloat(p.k0) /\ h0_list[1] = ToFloat(p.h0))
  /\ (pc = "while") => (Len(k0_list) = i + 1)

\* C15: the lists start with the caller's k0 and h0; they have equal length,
\* i + 1 at every loop test; a step leaves each list as it was or appends
\* one value to it, k and h together, and the counter goes up by one with
\* them; once the call has left the loop nothing is appended.
C15_AppendOnly == []AppendOnlyState /\ [][AppendOnlyStep]_vars

\* C15's case: a call has returned after appending in the loop.
C15_Witness ==
  pc = "done" /\ Len(k0_list) >= 4 /\ Len(k0_list) = Len(h0_list)

\* The second call has ended.
OtherStopped == other.pc \in {"done", "raised"}

C18_AverageAbsoluteChange ==
  "Average absolute change" \in DOMAIN frame
    => frame["Average absolute change"]
         = AverageAbsoluteChangeFormula(frame["Absolute level"])

\* C19: the 'Average percentage change' column holds [(x_n/x_0)^(1/n) - 1]*100
\* with n the number of observations less one.
C19_AveragePercentageChange ==
  "Average percentage change" \in DOMAIN frame
    => frame["Average percentage change"]
         = AveragePercentageChangeFormula(frame["Absolute level"])

\* Two finite floats are within 0.001 of each other.
Within1e3(a, b) ==
  /\ IsFinite(a) /\ IsFinite(b)
  /\ (IF a < b THEN b - a ELSE a - b) * 1000 <= Scale

\* C17: with sigma close to 1 the CES functions give what the Cobb-Douglas
\* functions give from the same state and parameters: kt1 is within 0.001
\* of kt_plus1_func and ht1 within 0.001 of ht_plus1_func.
C17_CobbDouglasLimit ==
  /\ {"kt1", "kt_plus1_func"} \subseteq DOMAIN applied
       => Within1e3(applied["kt1"], applied["kt_plus1_func"])
  /\ {"ht1", "ht_plus1_func"} \subseteq DOMAIN applied
       => Within1e3(applied["ht1"], applied["ht_plus1_func"])

\* The last state of the lists is within 1/den of the steady state in both
\* coordinates.
NearSteadyState(den) ==
  /\ FineAbsBelow(k0_list[Len(k0_list)] - ktilstar(p), den)
  /\ FineAbsBelow(h0_list[Len(h0_list)] - htilstar(p), den)

\* C16 (as claimed): the run under the standard calibration ends reporting
\* convergence, with its final state within 0.0001 of (ktilstar, htilstar).
C16_WithinTenThousandth ==
  /\ pc # "raised"
  /\ pc \in {"return", "done"}
       => displayed = <<ConvergenceMsg>> /\ NearSteadyState(10000)

\* C16: the run under the standard calibration ends reporting convergence,
\* with its final state within 0.001 of (ktilstar, htilstar) in both
\* coordinates.
C16_StandardCalibration ==
  /\ pc # "raised"
  /\ pc \in {"return", "done"}
       => displayed = <<ConvergenceMsg>> /\ NearSteadyState(1000)

\* C16's case: the run has ended after some hundred iterations.
C16_Witness ==
  /\ pc = "done" /\ p = StandardCalibration
  /\ displayed = <<ConvergenceMsg>> /\ Len(k0_list) > 100

\* C21: the last h of the lists is the h transition of the state before it,
\* (k_t, h_t), and the last k the k transition of the same state: the k
\* appended just before h is computed is not read; at every loop test i is
\* the index of the last state of both lists.
C21_SimultaneousUpdate ==
  /\ Len(h0_list) >= 2
       => /\ h0_list[Len(h0_list)]
               = NextH(fn, p, <<k0_list[Len(h0_list) - 1]>>,
                       <<h0_list[Len(h0_list) - 1]>>, 0)
          /\ k0_list[Len(h0_list)]
               = NextK(fn, p, <<k0_list[Len(h0_list) - 1]>>,
                       <<h0_list[Len(h0_list) - 1]>>, 0)
  /\ pc = "while" => (i = Len(k0_list) - 1 /\ i = Len(h0_list) - 1)

\* C21's case: a call is back at the loop test after appending in the loop,
\* and the h transition of its last k with the h before is not the h it
\* appended last.
C21_Witness ==
  /\ pc = "while" /\ i >= 2 /\ Len(h0_list) >= 3 /\ Len(k0_list) = Len(h0_list)
  /\ NextH(fn, p, <<k0_list[Len(k0_list)]>>, <<h0_list[Len(h0_list) - 1]>>, 0)
       # h0_list[Len(h0_list)]

\* What C22 says of the calls that return: the result is assigned and one
\* message has been displayed, the warning on a rejecting path, one of the
\* two messages of the break branches on the iterating path; the loop test
\* i < 10000 is never false.
ReturnsAssigned ==
  /\ pc = "while" => i < LoopBound
  /\ pc \in {"return", "done"}
       => /\ result = "None"
          /\ Len(displayed) = 1
          /\ Warning(fn, p) # ""
               => (displayed = <<Warning(fn, p)>> /\ k0_list = <<>> /\ calls = 0)
          /\ Warning(fn, p) = ""
               => displayed[1] \in {ConvergenceMsg, NoConvergenceMsg}

\* C22 (as claimed): every call reaches its return statement, none ends
\* otherwise, and it reaches it with result assigned, through a break
\* branch of the loop or after exactly one warning.
C22_ReachesReturnAssigned ==
  /\ pc # "raised"
  /\ ReturnsAssigned

\* The values the sliders allow for n, g and delta.
InSliderRange(q) ==
  /\ q.n >= -100 /\ q.n <= 100
  /\ q.g >= -100 /\ q.g <= 100
  /\ q.delta >= 0 /\ q.delta <= 100

\* C23 (as claimed): a call that has passed its checks and gone on to
\* evaluate a transition function, with n, g and delta as the sliders allow,
\* has a divisor (1+n)(1+g) that is not zero.
C23_DivisorNonZero ==
  (Warning(fn, p) = "" /\ pc \notin {"none", "start"} /\ InSliderRange(p))
    => Divisor(p.n, p.g) # 0

\* What C24 says of the outcome a call on the iterating path reports: at
\* most one message; convergence only with the last two states within the
\* tolerance; non-convergence only at i = 9999 and with the last two states
\* failing the test, so that a call whose last two states pass it at
\* i = 9999 reports convergence.
OutcomeRules ==
  Warning(fn, p) = ""
    => /\ Len(displayed) <= 1
       /\ Seen(ConvergenceMsg) => ErrorMargin(k0_list, h0_list)
       /\ Seen(NoConvergenceMsg)
            => (i = LastIter /\ ~ErrorMargin(k0_list, h0_list))
       /\ (pc \in {"return", "done"} /\ i = LastIter
             /\ ErrorMargin(k0_list, h0_list))
            => displayed = <<ConvergenceMsg>>

\* C24 (as claimed): every call on the iterating path ends with exactly one
\* of the two outcomes reported, once, under the rules above.
C24_ExactlyOneOutcome ==
  /\ OutcomeRules
  /\ (Warning(fn, p) = "" /\ pc \in {"return", "done", "raised"})
       => (displayed = <<ConvergenceMsg>> \/ displayed = <<NoConvergenceMsg>>)
====
